---- MODULE Spec2Model ----
(* Model of src/extract_neighbors.py: get_neighbors() derives, from a      *)
(* topology's geometries and a metadata table, the mapping from region     *)
(* code to the sorted list of codes sharing a boundary arc.                *)
EXTENDS Integers, Sequences, FiniteSets, TLC

VARIABLES geometries, metadata, pc, all_alpha3, id_to_alpha3, i,
          arc_to_alpha3, neighbors, key_order, result, run, prev_result

vars == <<geometries, metadata, pc, all_alpha3, id_to_alpha3, i,
          arc_to_alpha3, neighbors, key_order, result, run, prev_result>>

(* ---------------------------------------------------------------------- *)
(* Bounds                                                                  *)
(* ---------------------------------------------------------------------- *)
MaxGeoms == 3
MaxRuns == 2

(* ---------------------------------------------------------------------- *)
(* Python values: None, dictionaries with optional keys, truthiness        *)
(* ---------------------------------------------------------------------- *)
NoVal == "<None>"

EmptyDict == [x \in {} |-> NoVal]

\* d.get(k)
Get(d, k) == IF k \in DOMAIN d THEN d[k] ELSE NoVal

\* d.get(k, default)
GetOr(d, k, default) == IF k \in DOMAIN d THEN d[k] ELSE default

\* d[k] = v
Put(d, k, v) == [x \in (DOMAIN d) \cup {k} |-> IF x = k THEN v ELSE d[x]]

\* truthiness of an optional string: None and "" are falsy
Truthy(v) == v # NoVal /\ v # ""

(* ---------------------------------------------------------------------- *)
(* Nested arc references: a list item is an integer or a list              *)
(* ---------------------------------------------------------------------- *)
Leaf(n) == [ref |-> n]
Group(s) == [items |-> s]

\* isinstance(item, list)
IsList(item) == "items" \in DOMAIN item

RECURSIVE flatten_arcs(_)
flatten_arcs(arcs) ==
    IF Len(arcs) = 0 THEN <<>>
    ELSE LET item == Head(arcs)
         IN (IF IsList(item) THEN flatten_arcs(item.items) ELSE <<item.ref>>)
            \o flatten_arcs(Tail(arcs))

\* arc if arc >= 0 else ~arc
NormalizeNegate(arc) == IF arc >= 0 THEN arc ELSE -arc
normalized_arc(arc) == IF arc >= 0 THEN arc ELSE -arc - 1

(* ---------------------------------------------------------------------- *)
(* Recognized codes (lines 13-18)                                          *)
(* ---------------------------------------------------------------------- *)
AllAlpha3(meta) ==
    {meta[n].alpha3 : n \in {m \in DOMAIN meta : Truthy(Get(meta[m], "alpha3"))}}

(* ---------------------------------------------------------------------- *)
(* Region resolver (lines 24-44)                                           *)
(* ---------------------------------------------------------------------- *)
\* the alpha3 the loop body of lines 25-37 ends with
ResolveCode(geom, meta) ==
    LET props == GetOr(geom, "properties", EmptyDict)
        alpha3 == Get(props, "alpha3")
        name == Get(props, "name")
        looked == IF Truthy(alpha3) THEN alpha3
                  ELSE IF name \in DOMAIN meta /\ DOMAIN meta[name] # {}
                       THEN Get(meta[name], "alpha3")
                       ELSE alpha3
    IN IF name = "Somaliland" \/ Get(geom, "id") = "ABV" THEN "SOM" ELSE looked

\* geom.get('id') or name   (line 40)
ResolveKey(geom) ==
    LET props == GetOr(geom, "properties", EmptyDict)
        id == Get(geom, "id")
    IN IF Truthy(id) THEN id ELSE Get(props, "name")

\* one iteration of the loop of lines 24-44
ResolveGeom(tbl, geom, meta) ==
    LET alpha3 == ResolveCode(geom, meta)
    IN IF Truthy(alpha3) THEN Put(tbl, ResolveKey(geom), alpha3) ELSE tbl

RECURSIVE ResolveAll(_, _, _)
ResolveAll(tbl, geoms, meta) ==
    IF Len(geoms) = 0 THEN tbl
    ELSE ResolveAll(ResolveGeom(tbl, Head(geoms), meta), Tail(geoms), meta)

(* ---------------------------------------------------------------------- *)
(* Arc normalizer and indexer (lines 46-69)                                *)
(* ---------------------------------------------------------------------- *)
\* geom['properties'] raises KeyError when evaluated on a geometry without
\* the key; it is evaluated only when geom.get('id') is falsy (line 47)
IndexRaises(geom) == ~Truthy(Get(geom, "id")) /\ "properties" \notin DOMAIN geom

\* geom.get('id') or geom['properties'].get('name')   (line 47)
geom_id(geom) ==
    LET id == Get(geom, "id")
    IN IF Truthy(id) THEN id ELSE Get(geom.properties, "name")

\* id_to_alpha3.get(geom_id)   (line 48)
target_alpha3(tbl, geom) == Get(tbl, geom_id(geom))

\* lines 66-69 for one arc; the table is a dict in insertion order
AddOwner(tbl, arc, code) ==
    LET n == normalized_arc(arc)
    IN IF \E j \in 1..Len(tbl) : tbl[j].arc = n
       THEN [j \in 1..Len(tbl) |->
                IF tbl[j].arc = n
                THEN [arc |-> n, owners |-> tbl[j].owners \cup {code}]
                ELSE tbl[j]]
       ELSE Append(tbl, [arc |-> n, owners |-> {code}])

RECURSIVE AddOwners(_, _, _)
AddOwners(tbl, flat_arcs, code) ==
    IF Len(flat_arcs) = 0 THEN tbl
    ELSE AddOwners(AddOwner(tbl, Head(flat_arcs), code), Tail(flat_arcs), code)

\* one iteration of the loop of lines 46-69, for a geometry that does not raise
IndexGeom(arcTbl, geom, idTbl) ==
    LET target == target_alpha3(idTbl, geom)
    IN IF ~Truthy(target) THEN arcTbl
       ELSE AddOwners(arcTbl, flatten_arcs(GetOr(geom, "arcs", <<>>)), target)

RECURSIVE IndexAll(_, _, _)
IndexAll(arcTbl, geoms, idTbl) ==
    IF Len(geoms) = 0 THEN arcTbl
    ELSE IndexAll(IndexGeom(arcTbl, Head(geoms), idTbl), Tail(geoms), idTbl)

(* ---------------------------------------------------------------------- *)
(* Adjacency builder (lines 71-83)                                         *)
(* ---------------------------------------------------------------------- *)
\* {alpha3: set() for alpha3 in all_alpha3}   (line 71)
EmptyNeighborsUnseeded(codes) == [a \in {} |-> {}]
EmptyNeighbors(codes) == [a \in codes |-> {}]

\* lines 74-79 for one owner set
BuildArcSelfLoop(nb, alpha3_set) ==
    IF Cardinality(alpha3_set) > 1
    THEN [a1 \in DOMAIN nb |->
            nb[a1] \cup {a2 \in alpha3_set : a1 \in alpha3_set}]
    ELSE nb
BuildArcPairsOnly(nb, alpha3_set) ==
    IF Cardinality(alpha3_set) = 2
    THEN [a1 \in DOMAIN nb |->
            nb[a1] \cup {a2 \in alpha3_set : a1 \in alpha3_set /\ a1 # a2}]
    ELSE nb
BuildArc(nb, alpha3_set) ==
    IF Cardinality(alpha3_set) > 1
    THEN [a1 \in DOMAIN nb |->
            nb[a1] \cup {a2 \in alpha3_set : a1 \in alpha3_set /\ a1 # a2}]
    ELSE nb

RECURSIVE BuildAll(_, _)
BuildAll(nb, arcTbl) ==
    IF Len(arcTbl) = 0 THEN nb
    ELSE BuildAll(BuildArc(nb, Head(arcTbl).owners), Tail(arcTbl))

\* code points of the region codes, for Python's string comparison
CodePoints(code) ==
    CASE code = "AAA" -> <<65, 65, 65>>
      [] code = "BBB" -> <<66, 66, 66>>
      [] code = "SOM" -> <<83, 79, 77>>
      [] code = "XXX" -> <<88, 88, 88>>

RECURSIVE SeqLess(_, _)
SeqLess(s, t) ==
    IF Len(t) = 0 THEN FALSE
    ELSE IF Len(s) = 0 THEN TRUE
    ELSE IF Head(s) # Head(t) THEN Head(s) < Head(t)
    ELSE SeqLess(Tail(s), Tail(t))

\* str.__lt__
StrLess(a, b) == SeqLess(CodePoints(a), CodePoints(b))

\* sorted(list(v))   (line 82)
RECURSIVE sorted(_)
sorted(v) ==
    IF v = {} THEN <<>>
    ELSE LET m == CHOOSE x \in v : \A y \in v \ {x} : StrLess(x, y)
         IN <<m>> \o sorted(v \ {m})

\* {k: sorted(list(v)) for k, v in neighbors.items()}, in the dict's key order
ResultOf(nb, order) == [j \in 1..Len(order) |-> <<order[j], sorted(nb[order[j]])>>]

\* the orders in which iterating the set all_alpha3 can yield its elements
RECURSIVE Orders(_)
Orders(S) ==
    IF S = {} THEN {<<>>}
    ELSE UNION {{<<x>> \o o : o \in Orders(S \ {x})} : x \in S}

(* ---------------------------------------------------------------------- *)
(* Inputs: the two documents once loaded (lines 4-7, 14-15)                *)
(* ---------------------------------------------------------------------- *)
\* metadata documents: display name -> record with an optional alpha3
MetadataInputs ==
    { [Alpha |-> [alpha3 |-> "AAA"], Beta |-> [alpha3 |-> "BBB"],
       Somalia |-> [alpha3 |-> "SOM"], Gamma |-> [capital |-> "G"]],
      [Alpha |-> [alpha3 |-> "AAA"], Beta |-> [alpha3 |-> ""]],
      [Beta |-> [alpha3 |-> "BBB"], Somalia |-> [alpha3 |-> "SOM"]] }

\* geometry records: id, properties, name, alpha3 and arcs are all optional
GeometryInputs ==
    { [properties |-> [name |-> "Alpha"],
       arcs |-> <<Group(<<Leaf(0), Leaf(1)>>)>>],
      [properties |-> [alpha3 |-> "", name |-> "Beta"],
       arcs |-> <<Group(<<Leaf(-1)>>)>>],
      [properties |-> [alpha3 |-> "XXX", name |-> "Somaliland"],
       arcs |-> <<Group(<<Group(<<Leaf(-2)>>)>>), Group(<<Leaf(0)>>)>>],
      [id |-> "ABV", arcs |-> <<Leaf(2), Leaf(-1)>>],
      [id |-> "Alpha", properties |-> [alpha3 |-> "XXX", name |-> "Beta"],
       arcs |-> <<Leaf(-1), Leaf(0)>>],
      [id |-> "BET", properties |-> [name |-> "Beta"]],
      [properties |-> [name |-> "Gamma"], arcs |-> <<Group(<<Leaf(1), Leaf(2)>>)>>],
      [arcs |-> <<Leaf(0)>>] }

GeometryLists == UNION {[1..n -> GeometryInputs] : n \in 0..MaxGeoms}

(* ---------------------------------------------------------------------- *)
(* State machine                                                           *)
(* ---------------------------------------------------------------------- *)
\* state of a run before its first statement that follows loading
Fresh ==
    /\ pc = "load"
    /\ all_alpha3 = {}
    /\ id_to_alpha3 = EmptyDict
    /\ i = 1
    /\ arc_to_alpha3 = <<>>
    /\ neighbors = EmptyDict
    /\ key_order = <<>>
    /\ result = <<>>

Init ==
    /\ geometries \in GeometryLists
    /\ metadata \in MetadataInputs
    /\ run = 1
    /\ prev_result = <<>>
    /\ Fresh

\* lines 13-18
LoadMetadata ==
    /\ pc = "load"
    /\ all_alpha3' = AllAlpha3(metadata)
    /\ pc' = "resolve"
    /\ UNCHANGED <<geometries, metadata, id_to_alpha3, i, arc_to_alpha3,
                   neighbors, key_order, result, run, prev_result>>

\* lines 23-44
ResolveGeometries ==
    /\ pc = "resolve"
    /\ id_to_alpha3' = ResolveAll(EmptyDict, geometries, metadata)
    /\ i' = 1
    /\ pc' = "index"
    /\ UNCHANGED <<geometries, metadata, all_alpha3, arc_to_alpha3,
                   neighbors, key_order, result, run, prev_result>>

\* one iteration of lines 46-69
IndexGeometry ==
    /\ pc = "index"
    /\ i <= Len(geometries)
    /\ ~IndexRaises(geometries[i])
    /\ arc_to_alpha3' = IndexGeom(arc_to_alpha3, geometries[i], id_to_alpha3)
    /\ i' = i + 1
    /\ UNCHANGED <<geometries, metadata, pc, all_alpha3, id_to_alpha3,
                   neighbors, key_order, result, run, prev_result>>

\* line 47 raising KeyError: the exception leaves get_neighbors
IndexKeyError ==
    /\ pc = "index"
    /\ i <= Len(geometries)
    /\ IndexRaises(geometries[i])
    /\ pc' = "failed"
    /\ UNCHANGED <<geometries, metadata, all_alpha3, id_to_alpha3, i,
                   arc_to_alpha3, neighbors, key_order, result, run,
                   prev_result>>

\* lines 71-79; the keys are inserted in the iteration order of a set of
\* strings, which the interpreter's per-process string hashing decides
BuildNeighbors ==
    /\ pc = "index"
    /\ i > Len(geometries)
    /\ neighbors' = BuildAll(EmptyNeighbors(all_alpha3), arc_to_alpha3)
    /\ \E order \in Orders(DOMAIN neighbors') : key_order' = order
    /\ pc' = "sort"
    /\ UNCHANGED <<geometries, metadata, all_alpha3, id_to_alpha3, i,
                   arc_to_alpha3, result, run, prev_result>>

\* lines 82-83
SortResult ==
    /\ pc = "sort"
    /\ result' = ResultOf(neighbors, key_order)
    /\ pc' = "done"
    /\ UNCHANGED <<geometries, metadata, all_alpha3, id_to_alpha3, i,
                   arc_to_alpha3, neighbors, key_order, run, prev_result>>

\* lines 85-87 executed again, by a new process, on the same two documents
Rerun ==
    /\ pc = "done"
    /\ run < MaxRuns
    /\ run' = run + 1
    /\ prev_result' = result
    /\ pc' = "load"
    /\ all_alpha3' = {}
    /\ id_to_alpha3' = EmptyDict
    /\ i' = 1
    /\ arc_to_alpha3' = <<>>
    /\ neighbors' = EmptyDict
    /\ key_order' = <<>>
    /\ result' = <<>>
    /\ UNCHANGED <<geometries, metadata>>

\* one call of get_neighbors
Next ==
    \/ LoadMetadata
    \/ ResolveGeometries
    \/ IndexGeometry
    \/ IndexKeyError
    \/ BuildNeighbors
    \/ SortResult

Spec == Init /\ [][Next]_vars

\* the script run up to MaxRuns times on the same documents
NextRerun ==
    \/ Next
    \/ Rerun

SpecRerun == Init /\ [][NextRerun]_vars

(* ---------------------------------------------------------------------- *)
(* Vocabulary of the properties                                            *)
(* ---------------------------------------------------------------------- *)
Done == pc = "done"

\* the keys of the returned mapping
ResultKeys == {result[j][1] : j \in 1..Len(result)}

\* the neighbor list the returned mapping holds for key k
ResultList(k) == result[CHOOSE j \in 1..Len(result) : result[j][1] = k][2]

Elems(s) == {s[j] : j \in 1..Len(s)}

\* B appears in A's neighbor list
Lists(A, B) == A \in ResultKeys /\ B \in Elems(ResultList(A))

\* every code a geometry or a metadata record of the inputs can carry
RegionCodes == {"AAA", "BBB", "SOM", "XXX"}

\* the non-empty alpha3 values of the metadata records
RecognizedCodes ==
    {c \in RegionCodes :
        \E n \in DOMAIN metadata :
            "alpha3" \in DOMAIN metadata[n] /\ metadata[n].alpha3 = c}

\* the owner sets of the arc-ownership table
OwnerSets == {arc_to_alpha3[j].owners : j \in 1..Len(arc_to_alpha3)}

\* some canonical arc id has both A and B in its owner set
ShareArc(A, B) == \E S \in OwnerSets : A \in S /\ B \in S

\* the mapping get_neighbors computes from the two documents
GetNeighborsMap(geoms, meta) ==
    BuildAll(EmptyNeighbors(AllAlpha3(meta)),
             IndexAll(<<>>, geoms, ResolveAll(EmptyDict, geoms, meta)))

RECURSIVE NumLeaves(_)
NumLeaves(arcs) ==
    IF Len(arcs) = 0 THEN 0
    ELSE (IF IsList(Head(arcs)) THEN NumLeaves(Head(arcs).items) ELSE 1)
         + NumLeaves(Tail(arcs))

\* arcs with its k-th reference r (in traversal order) replaced by -r-1
RECURSIVE SwapLeaf(_, _)
SwapLeaf(arcs, k) ==
    IF Len(arcs) = 0 THEN <<>>
    ELSE LET item == Head(arcs)
             n == IF IsList(item) THEN NumLeaves(item.items) ELSE 1
         IN IF k >= 1 /\ k <= n
            THEN <<IF IsList(item) THEN Group(SwapLeaf(item.items, k))
                   ELSE Leaf(-item.ref - 1)>> \o Tail(arcs)
            ELSE <<item>> \o SwapLeaf(Tail(arcs), k - n)

\* the geometry list with the k-th reference of geometry g complemented
SwapInput(g, k) ==
    [geometries EXCEPT ![g] =
        [geometries[g] EXCEPT !.arcs = SwapLeaf(geometries[g].arcs, k)]]

LeavesOf(g) ==
    IF "arcs" \in DOMAIN geometries[g] THEN NumLeaves(geometries[g].arcs) ELSE 0

\* the arc-ownership table in which every geometry is indexed under the code
\* the resolver chain gives that geometry itself
RECURSIVE OwnIndex(_, _)
OwnIndex(arcTbl, geoms) ==
    IF Len(geoms) = 0 THEN arcTbl
    ELSE LET geom == Head(geoms)
             code == ResolveCode(geom, metadata)
         IN OwnIndex(IF Truthy(code)
                     THEN AddOwners(arcTbl,
                                    flatten_arcs(GetOr(geom, "arcs", <<>>)), code)
                     ELSE arcTbl,
                     Tail(geoms))

RECURSIVE Ascending(_)
Ascending(s) ==
    Len(s) <= 1 \/ (StrLess(s[1], s[2]) /\ Ascending(Tail(s)))

(* ---------------------------------------------------------------------- *)
(* Properties                                                              *)
(* ---------------------------------------------------------------------- *)

\* C1: in the returned mapping adjacency is symmetric: every code B listed
\* as a neighbor of a key A is itself a key whose list contains A.
C1_Symmetric ==
    Done => \A A \in ResultKeys : \A B \in Elems(ResultList(A)) : Lists(B, A)

\* C2: codes outside the recognized universe never appear in the output,
\* neither as a key nor as an element of a neighbor list.
C2_OnlyRecognizedCodes ==
    Done => \A A \in ResultKeys :
                A \in RecognizedCodes /\ Elems(ResultList(A)) \subseteq RecognizedCodes

\* C3: every non-empty alpha3 of a metadata record is a key of the returned
\* mapping; a code that owns no shared arc has the empty list, and with no
\* geometries every key maps to the empty list.
C3_UniverseComplete ==
    Done => /\ RecognizedCodes \subseteq ResultKeys
            /\ \A c \in RecognizedCodes :
                   (\A S \in OwnerSets : c \in S => S = {c}) => ResultList(c) = <<>>
            /\ geometries = <<>> => \A c \in ResultKeys : ResultList(c) = <<>>

C3_Witness ==
    /\ Done
    /\ geometries # <<>>
    /\ \E c \in RecognizedCodes :
          /\ \A S \in OwnerSets : c \notin S
          /\ c \in ResultKeys
          /\ ResultList(c) = <<>>
    /\ \E c \in RecognizedCodes : ResultList(c) # <<>>

C5_SignInvariant ==
    Done => \A g \in 1..Len(geometries) : \A k \in 1..LeavesOf(g) :
                ResultOf(GetNeighborsMap(SwapInput(g, k), metadata), key_order)
                    = result

C5_Witness ==
    /\ Done
    /\ \E g \in 1..Len(geometries) :
          /\ LeavesOf(g) >= 1
          /\ \E item \in Elems(geometries[g].arcs) :
                IsList(item) /\ \E sub \in Elems(item.items) : IsList(sub)
          /\ Truthy(target_alpha3(id_to_alpha3, geometries[g]))
          /\ Lists(target_alpha3(id_to_alpha3, geometries[g]), "AAA")

\* C6: no code appears in its own neighbor list.
C6_NoSelfLoop ==
    Done => \A A \in ResultKeys : ~Lists(A, A)

C6_Witness ==
    /\ Done
    /\ \E g \in 1..Len(geometries) : \E h \in 1..Len(geometries) :
          /\ g # h
          /\ "arcs" \in DOMAIN geometries[g] /\ "arcs" \in DOMAIN geometries[h]
          /\ LET cg == target_alpha3(id_to_alpha3, geometries[g])
                 ch == target_alpha3(id_to_alpha3, geometries[h])
                 ag == {normalized_arc(r) : r \in Elems(flatten_arcs(geometries[g].arcs))}
                 ah == {normalized_arc(r) : r \in Elems(flatten_arcs(geometries[h].arcs))}
             IN /\ Truthy(cg) /\ cg = ch /\ cg \in ResultKeys
                /\ \E a \in ag \cap ah :
                      \E j \in 1..Len(arc_to_alpha3) :
                          /\ arc_to_alpha3[j].arc = a
                          /\ Cardinality(arc_to_alpha3[j].owners) > 1

\* C7: once both documents are loaded get_neighbors never fails part-way.
C7_NeverFails == pc # "failed"

\* C8: two runs on identical inputs yield identical output: the same keys in
\* the same order, each with the same ascending duplicate-free list.
C8_Deterministic ==
    (Done /\ run = 2) =>
        /\ result = prev_result
        /\ \A A \in ResultKeys : Ascending(ResultList(A))

\* C9: a geometry the resolver leaves unresolved adds no owner to any arc.
C9_UnresolvedAddsNothing ==
    [][(pc = "index" /\ i <= Len(geometries)
          /\ ~Truthy(ResolveCode(geometries[i], metadata)))
       => arc_to_alpha3' = arc_to_alpha3]_vars

\* C10: the code under which a geometry's arcs are indexed is the code the
\* resolver chain gives that same geometry.
C10_IndexedUnderOwnCode ==
    pc = "index" =>
        arc_to_alpha3 = OwnIndex(<<>>, SubSeq(geometries, 1, i - 1))

====
